---- MODULE Spec2Model ----
(***************************************************************************)
(* A model of rapscallion's render pass: src/render/traverse.js dispatches *)
(* a VDOM node to an emission Sequence; the Sequence realizes the          *)
(* registered segment sources in order, calling back into renderNode,      *)
(* renderChildren and evalComponent.  evalComponent blocks in              *)
(* deasync.loopWhile while a componentWillMount promise is pending.        *)
(***************************************************************************)
EXTENDS Integers, Sequences, FiniteSets, TLC

VARIABLES root, ctx0, pc, seq, out, cache, frame, promise, done, err, result, log,
          second

vars == <<root, ctx0, pc, seq, out, cache, frame, promise, done, err, result, log, second>>

\* Largest total number of items (leaves and nested lists) of a generated children list.
MaxItems == 4

\* Numeric leaves range over -MaxNum .. MaxNum.
MaxNum == 12

----------------------------------------------------------------------------
(* JavaScript values.  Every value is a record of the same shape; k is the *)
(* runtime shape, id the object identity ("" for primitives).              *)

NoType ==
  [name |-> "", stateful |-> FALSE, hook |-> "absent", throwsAt |-> "none",
   readsCtx |-> FALSE, childCtx |-> "", mode |-> "body", body |-> <<>>]

Base ==
  [k |-> "undefined", id |-> "", n |-> 0, s |-> <<>>, items |-> <<>>,
   tag |-> "", attrs |-> <<>>, rawSet |-> FALSE, html |-> <<>>,
   children |-> <<>>, type |-> NoType]

Undef == Base
Null == [Base EXCEPT !.k = "null"]
False == [Base EXCEPT !.k = "boolean"]
True == [Base EXCEPT !.k = "boolean", !.n = 1]
Num(n) == [Base EXCEPT !.k = "number", !.n = n]
Str(chars) == [Base EXCEPT !.k = "string", !.s = chars]
Arr(items) == [Base EXCEPT !.k = "array", !.items = items]
PlainObj == [Base EXCEPT !.k = "object", !.id = "o"]
Fn == [Base EXCEPT !.k = "function", !.id = "f"]

\* {type: tag, props: {...attrs, children}}
Elem(id, tag, attrs, children) ==
  [Base EXCEPT !.k = "element", !.id = id, !.tag = tag, !.attrs = attrs,
               !.children = children]

\* {type: tag, props: {dangerouslySetInnerHTML: {__html}, children}}
RawElem(id, tag, html, children) ==
  [Base EXCEPT !.k = "element", !.id = id, !.tag = tag, !.rawSet = TRUE,
               !.html = html, !.children = children]

\* {$$typeof, type: function or class, props}
Comp(id, type) == [Base EXCEPT !.k = "component", !.id = id, !.type = type]

\* typeof node
TypeOf(v) ==
  CASE v.k = "undefined" -> "undefined"
    [] v.k = "boolean" -> "boolean"
    [] v.k = "number" -> "number"
    [] v.k = "string" -> "string"
    [] v.k = "function" -> "function"
    [] OTHER -> "object"

\* !node
Falsy(v) ==
  \/ v.k \in {"undefined", "null"}
  \/ v.k = "boolean" /\ v.n = 0
  \/ v.k = "number" /\ v.n = 0
  \/ v.k = "string" /\ v.s = <<>>

\* typeof node.type === "string"
TypeIsString(v) == v.k = "element"

\* node.$$typeof
HasTypeofMarker(v) == v.k = "component"

\* child instanceof Array
IsArray(v) == v.k = "array"

----------------------------------------------------------------------------
(* Strings *)

RECURSIVE Concat(_)
Concat(ss) == IF ss = <<>> THEN "" ELSE Head(ss) \o Concat(Tail(ss))

Digit(d) == <<"0", "1", "2", "3", "4", "5", "6", "7", "8", "9">>[d + 1]

\* the decimal digits of a non-negative integer
RECURSIVE Decimal(_)
Decimal(n) == IF n < 10 THEN Digit(n) ELSE Decimal(n \div 10) \o Digit(n % 10)

\* Number.prototype.toString on an integer
NumberToString(n) == IF n < 0 THEN "-" \o Decimal(0 - n) ELSE Decimal(n)

\* htmlStringEscape of ./util
EscapeChar(c) ==
  CASE c = "&" -> "&amp;"
    [] c = "<" -> "&lt;"
    [] c = ">" -> "&gt;"
    [] c = "\"" -> "&quot;"
    [] c = "'" -> "&#x27;"
    [] OTHER -> c

RECURSIVE HtmlStringEscape(_)
HtmlStringEscape(chars) ==
  IF chars = <<>> THEN "" ELSE EscapeChar(Head(chars)) \o HtmlStringEscape(Tail(chars))

\* renderAttrs of ./attrs: name="value" for every prop but children and
\* dangerouslySetInnerHTML
RECURSIVE RenderAttrs(_)
RenderAttrs(attrs) ==
  IF attrs = <<>> THEN ""
  ELSE " " \o Head(attrs)[1] \o "=\"" \o Head(attrs)[2] \o "\"" \o RenderAttrs(Tail(attrs))

REACT_ID == " data-reactid"

----------------------------------------------------------------------------
(* Context collaborators of ./context *)

\* getContext: the part of the ambient context the component declares it reads
GetContext(type, context) == IF type.readsCtx THEN context ELSE ""

\* getChildContext: the ambient context augmented by what the component provides
GetChildContext(type, context) == IF type.childCtx # "" THEN type.childCtx ELSE context

----------------------------------------------------------------------------
(* The emission Sequence: segment sources *)

NoSrc ==
  [src |-> "emit", cached |-> FALSE, fn |-> "", what |-> "", node |-> Undef,
   ctx |-> "", start |-> 0]

\* seq.emit(thunk)
Emit(what, node) == [NoSrc EXCEPT !.what = what, !.node = node]

\* seq.delegate(producer)
Delegate(fn, node, context) ==
  [NoSrc EXCEPT !.src = "delegate", !.fn = fn, !.node = node, !.ctx = context]

\* seq.delegateCached(node, producer)
DelegateCached(fn, node, context) ==
  [NoSrc EXCEPT !.src = "delegate", !.cached = TRUE, !.fn = fn, !.node = node,
                !.ctx = context]

\* the end of a cached nested sequence: its realized segments are stored
EndCached(node, start) == [NoSrc EXCEPT !.src = "endCached", !.node = node, !.start = start]

\* what a thunk registered by emit returns when the Sequence invokes it
Thunk(s) ==
  CASE s.what = "open" -> "<" \o s.node.tag
    [] s.what = "attrs" -> RenderAttrs(s.node.attrs)
    [] s.what = "reactid" -> REACT_ID
    [] s.what = "gt" -> ">"
    [] s.what = "raw" -> IF s.node.html = <<>> \/ s.node.html[1] = <<>>
                         THEN "" ELSE Concat(s.node.html[1])
    [] s.what = "close" -> "</" \o s.node.tag \o ">"
    [] s.what = "text" -> HtmlStringEscape(s.node.s)
    [] s.what = "number" -> NumberToString(s.node.n)
    [] OTHER -> ""

----------------------------------------------------------------------------
(* The log of what the pass did *)

Ev(ev, node, info, nsrc) == [ev |-> ev, id |-> node.id, node |-> node, info |-> info, nsrc |-> nsrc]

\* what a call returns to the model: the error it threw ("" for none), the
\* segment sources it registered, and the events it logged
Outcome(e, srcs, events) == [err |-> e, srcs |-> srcs, log |-> events]

----------------------------------------------------------------------------
(* src/render/traverse.js *)

\* traverse with delegate in place of delegateCached
Traverse_Uncached(node, context) ==
  IF Falsy(node) THEN Outcome("", <<>>, <<Ev("traverse", node, context, 0)>>)
  ELSE CASE TypeOf(node) = "string" ->
              Outcome("", <<Emit("text", node)>>, <<Ev("traverse", node, context, 1)>>)
         [] TypeOf(node) = "number" ->
              Outcome("", <<Emit("number", node)>>, <<Ev("traverse", node, context, 1)>>)
         [] TypeOf(node) = "object" /\ TypeIsString(node) ->
              Outcome("", <<Delegate("renderNode", node, context)>>,
                      <<Ev("traverse", node, context, 1)>>)
         [] TypeOf(node) = "object" /\ ~TypeIsString(node) /\ HasTypeofMarker(node) ->
              Outcome("", <<Delegate("evalComponent", node, context)>>,
                      <<Ev("traverse", node, context, 1)>>)
         [] OTHER ->
              Outcome("TypeError", <<>>,
                      <<Ev("traverse", node, context, 0), Ev("throw", node, "TypeError", 0)>>)

\* traverse with a case for arrays: each element that is no array is emitted
\* or delegated in turn
Traverse_Arrays(node, context) ==
  IF Falsy(node) THEN Outcome("", <<>>, <<Ev("traverse", node, context, 0)>>)
  ELSE CASE TypeOf(node) = "string" ->
              Outcome("", <<Emit("text", node)>>, <<Ev("traverse", node, context, 1)>>)
         [] TypeOf(node) = "number" ->
              Outcome("", <<Emit("number", node)>>, <<Ev("traverse", node, context, 1)>>)
         [] TypeOf(node) = "object" /\ TypeIsString(node) ->
              Outcome("", <<DelegateCached("renderNode", node, context)>>,
                      <<Ev("traverse", node, context, 1)>>)
         [] TypeOf(node) = "object" /\ ~TypeIsString(node) /\ HasTypeofMarker(node) ->
              Outcome("", <<DelegateCached("evalComponent", node, context)>>,
                      <<Ev("traverse", node, context, 1)>>)
         [] IsArray(node) ->
              Outcome("", <<Delegate("renderChildren", [Base EXCEPT !.children = <<node>>], context)>>,
                      <<Ev("traverse", node, context, 1)>>)
         [] OTHER ->
              Outcome("TypeError", <<>>,
                      <<Ev("traverse", node, context, 0), Ev("throw", node, "TypeError", 0)>>)

\* traverse without the final throw: a node of an unknown shape is skipped
Traverse_NoThrow(node, context) ==
  IF Falsy(node) THEN Outcome("", <<>>, <<Ev("traverse", node, context, 0)>>)
  ELSE CASE TypeOf(node) = "string" ->
              Outcome("", <<Emit("text", node)>>, <<Ev("traverse", node, context, 1)>>)
         [] TypeOf(node) = "number" ->
              Outcome("", <<Emit("number", node)>>, <<Ev("traverse", node, context, 1)>>)
         [] TypeOf(node) = "object" /\ TypeIsString(node) ->
              Outcome("", <<DelegateCached("renderNode", node, context)>>,
                      <<Ev("traverse", node, context, 1)>>)
         [] TypeOf(node) = "object" /\ ~TypeIsString(node) /\ HasTypeofMarker(node) ->
              Outcome("", <<DelegateCached("evalComponent", node, context)>>,
                      <<Ev("traverse", node, context, 1)>>)
         [] OTHER -> Outcome("", <<>>, <<Ev("traverse", node, context, 0)>>)

\* traverse(seq, node, context): the segment sources it appends to seq, or the
\* TypeError it throws
Traverse(node, context) ==
  IF Falsy(node) THEN Outcome("", <<>>, <<Ev("traverse", node, context, 0)>>)
  ELSE CASE TypeOf(node) = "string" ->
              Outcome("", <<Emit("text", node)>>, <<Ev("traverse", node, context, 1)>>)
         [] TypeOf(node) = "number" ->
              Outcome("", <<Emit("number", node)>>, <<Ev("traverse", node, context, 1)>>)
         [] TypeOf(node) = "object" /\ TypeIsString(node) ->
              Outcome("", <<DelegateCached("renderNode", node, context)>>,
                      <<Ev("traverse", node, context, 1)>>)
         [] TypeOf(node) = "object" /\ ~TypeIsString(node) /\ HasTypeofMarker(node) ->
              Outcome("", <<DelegateCached("evalComponent", node, context)>>,
                      <<Ev("traverse", node, context, 1)>>)
         [] OTHER ->
              Outcome("TypeError", <<>>,
                      <<Ev("traverse", node, context, 0), Ev("throw", node, "TypeError", 0)>>)

\* renderChildrenArray without the instanceof Array test: a nested list goes
\* to traverse
RenderChildrenArray_Flat(children, context) ==
  LET Step(acc, i) ==
        IF acc.err # "" THEN acc
        ELSE LET r == Traverse(children[i], context)
             IN Outcome(r.err, acc.srcs \o r.srcs, acc.log \o r.log)
      F[i \in 0..Len(children)] == IF i = 0 THEN Outcome("", <<>>, <<>>) ELSE Step(F[i - 1], i)
  IN F[Len(children)]

\* renderChildrenArray(seq, children, context); a throw ends the loop
RECURSIVE RenderChildrenArray(_, _)
RenderChildrenArray(children, context) ==
  IF children = <<>> THEN Outcome("", <<>>, <<>>)
  ELSE LET child == Head(children)
           r == IF IsArray(child) THEN RenderChildrenArray(child.items, context)
                ELSE Traverse(child, context)
       IN IF r.err # "" THEN r
          ELSE LET rest == RenderChildrenArray(Tail(children), context)
               IN Outcome(rest.err, r.srcs \o rest.srcs, r.log \o rest.log)

\* renderChildren(seq, children, context); children is <<>> when the element
\* has no children prop
RenderChildren(children, context) ==
  IF children = <<>> \/ Falsy(children[1]) THEN Outcome("", <<>>, <<>>)
  ELSE IF IsArray(children[1]) THEN RenderChildrenArray(children[1].items, context)
  ELSE Traverse(children[1], context)

\* renderNode without the else: the children are delegated as well
RenderNode_Both(node, context) ==
  Outcome("",
          <<Emit("open", node), Emit("attrs", node), Emit("reactid", node), Emit("gt", node)>>
            \o (IF node.rawSet THEN <<Emit("raw", node)>> ELSE <<>>)
            \o <<Delegate("renderChildren", node, context)>>
            \o <<Emit("close", node)>>,
          <<>>)

\* renderNode emitting the closing tag before it delegates the children
RenderNode_CloseFirst(node, context) ==
  Outcome("",
          <<Emit("open", node), Emit("attrs", node), Emit("reactid", node), Emit("gt", node)>>
            \o <<Emit("close", node)>>
            \o (IF node.rawSet THEN <<Emit("raw", node)>>
                ELSE <<Delegate("renderChildren", node, context)>>),
          <<>>)

\* renderNode(seq, node, context)
RenderNode(node, context) ==
  Outcome("",
          <<Emit("open", node), Emit("attrs", node), Emit("reactid", node), Emit("gt", node)>>
            \o (IF node.rawSet THEN <<Emit("raw", node)>>
                ELSE <<Delegate("renderChildren", node, context)>>)
            \o <<Emit("close", node)>>,
          <<>>)

\* what the component's function or render() returns: the text of the context
\* it reads, the text of its state, or a fixed tree
ResultOf(type, componentContext, state) ==
  CASE type.mode = "ctx" -> Str(IF componentContext = "" THEN <<>> ELSE <<componentContext>>)
    [] type.mode = "state" -> Str(<<state>>)
    [] OTHER -> IF type.body = <<>> THEN Null ELSE type.body[1]

\* node.type.prototype && node.type.prototype.isReactComponent
IsReactComponent(type) == type.stateful

\* evalComponent with the call of the function in a try block whose catch
\* renders nothing
EvalStateless_Catch(node, context) ==
  LET type == node.type
      componentContext == GetContext(type, context)
      call == Ev("call", node, componentContext, 0)
  IN IF type.throwsAt = "call"
     THEN Outcome("", <<>>, <<call, Ev("throw", node, "Error:call", 0)>>)
     ELSE LET instance == ResultOf(type, componentContext, "")
              childContext == GetChildContext(type, context)
              r == Traverse(instance, childContext)
          IN Outcome(r.err, r.srcs,
                     <<call, Ev("getChildContext", node, childContext, 0)>> \o r.log)

\* evalComponent traversing the result under the inherited context
EvalStateless_InheritedContext(node, context) ==
  LET type == node.type
      componentContext == GetContext(type, context)
      call == Ev("call", node, componentContext, 0)
  IN IF type.throwsAt = "call"
     THEN Outcome("Error:call", <<>>, <<call, Ev("throw", node, "Error:call", 0)>>)
     ELSE LET instance == ResultOf(type, componentContext, "")
              childContext == GetChildContext(type, context)
              r == Traverse(instance, context)
          IN Outcome(r.err, r.srcs,
                     <<call, Ev("getChildContext", node, childContext, 0)>> \o r.log)

\* evalComponent for a function component
EvalStateless(node, context) ==
  LET type == node.type
      componentContext == GetContext(type, context)
      call == Ev("call", node, componentContext, 0)
  IN IF type.throwsAt = "call"
     THEN Outcome("Error:call", <<>>, <<call, Ev("throw", node, "Error:call", 0)>>)
     ELSE LET instance == ResultOf(type, componentContext, "")
              childContext == GetChildContext(type, context)
              r == Traverse(instance, childContext)
          IN Outcome(r.err, r.srcs,
                     <<call, Ev("getChildContext", node, childContext, 0)>> \o r.log)

\* done never set by evalComponent itself
DoneAfterHook_Never(isPromise) == FALSE

\* done set without waiting for the promise
DoneAfterHook_Eager(isPromise) == TRUE

\* let done = false; if (promise) promise.then(() => {done = true;}) else done = true
DoneAfterHook(isPromise) == ~isPromise

\* evalComponent installing setState after it has called the hook
EvalBegin_HookBeforeSetState(node, context) ==
  LET type == node.type
      componentContext == GetContext(type, context)
      ctor == Ev("new", node, componentContext, 0)
      hook == <<Ev("componentWillMount", node, type.hook, 0), Ev("setState=", node, "", 0)>>
      isPromise == type.hook = "promise"
  IN IF type.throwsAt = "ctor"
     THEN [err |-> "Error:ctor", log |-> <<ctor, Ev("throw", node, "Error:ctor", 0)>>,
           state |-> "i", isPromise |-> FALSE, done |-> FALSE]
     ELSE IF type.hook = "absent"
     THEN [err |-> "", log |-> <<ctor>>, state |-> "i", isPromise |-> FALSE, done |-> TRUE]
     ELSE IF type.throwsAt = "hook"
     THEN [err |-> "Error:hook", log |-> <<ctor>> \o hook \o <<Ev("throw", node, "Error:hook", 0)>>,
           state |-> "i", isPromise |-> FALSE, done |-> FALSE]
     ELSE [err |-> "",
           log |-> <<ctor>> \o hook \o (IF isPromise THEN <<Ev("then", node, "", 0)>> ELSE <<>>),
           state |-> IF type.hook = "sync" THEN "s" ELSE "i",
           isPromise |-> isPromise,
           done |-> ~isPromise]

\* evalComponent for a class component, up to the wait: the constructor, the
\* hook, res, promise and done
EvalBegin(node, context) ==
  LET type == node.type
      componentContext == GetContext(type, context)
      ctor == Ev("new", node, componentContext, 0)
      hook == <<Ev("setState=", node, "", 0), Ev("componentWillMount", node, type.hook, 0)>>
      isPromise == type.hook = "promise"
  IN IF type.throwsAt = "ctor"
     THEN [err |-> "Error:ctor", log |-> <<ctor, Ev("throw", node, "Error:ctor", 0)>>,
           state |-> "i", isPromise |-> FALSE, done |-> FALSE]
     ELSE IF type.hook = "absent"
     THEN [err |-> "", log |-> <<ctor>>, state |-> "i", isPromise |-> FALSE,
           done |-> DoneAfterHook(FALSE)]
     ELSE IF type.throwsAt = "hook"
     THEN [err |-> "Error:hook", log |-> <<ctor>> \o hook \o <<Ev("throw", node, "Error:hook", 0)>>,
           state |-> "i", isPromise |-> FALSE, done |-> FALSE]
     ELSE [err |-> "",
           log |-> <<ctor>> \o hook \o (IF isPromise THEN <<Ev("then", node, "", 0)>> ELSE <<>>),
           state |-> IF type.hook = "sync" THEN "s" ELSE "i",
           isPromise |-> isPromise,
           done |-> DoneAfterHook(isPromise)]

\* evalComponent after loopWhile has returned: if (done) {...}
EvalFinish(node, context, state, isDone) ==
  LET type == node.type
      childContext == GetChildContext(type, context)
      gcc == Ev("getChildContext", node, childContext, 0)
      render == Ev("render", node, state, 0)
  IN IF ~isDone THEN Outcome("", <<>>, <<>>)
     ELSE IF type.throwsAt = "render"
     THEN Outcome("Error:render", <<>>, <<gcc, render, Ev("throw", node, "Error:render", 0)>>)
     ELSE LET r == Traverse(ResultOf(type, GetContext(type, context), state), childContext)
          IN Outcome(r.err, r.srcs, <<gcc, render>> \o r.log)

----------------------------------------------------------------------------
(* Input trees *)

A == Str(<<"a">>)
Z == Str(<<"z", "<">>)

\* the nested lists with n items in all, leaves and nested lists counted alike
ListAtoms == {A, Num(3), Null}

RECURSIVE ListsOfSize(_)
ListsOfSize(n) ==
  IF n = 0 THEN {<<>>}
  ELSE UNION {
         { <<item>> \o rest :
             item \in (IF k = 1 THEN ListAtoms ELSE {}) \cup {Arr(l) : l \in ListsOfSize(k - 1)},
             rest \in ListsOfSize(n - k) } : k \in 1..n }

ChildLists == UNION {ListsOfSize(n) : n \in 0..MaxItems}

Bodies ==
  {<<>>, <<A>>, <<Num(0)>>, <<Num(5)>>, <<True>>, <<Arr(<<A>>)>>, <<PlainObj>>,
   <<Elem("i", "i", <<>>, <<A>>)>>}

StatelessTypes ==
  {[NoType EXCEPT !.name = "F", !.throwsAt = t, !.mode = m[1], !.readsCtx = (m[1] = "ctx"),
                  !.body = m[2]] :
     t \in {"none", "call"},
     m \in {<<"ctx", <<>>>>} \cup {<<"body", b>> : b \in Bodies}}

StatefulTypes ==
  {[NoType EXCEPT !.name = "K", !.stateful = TRUE, !.hook = h[1], !.throwsAt = h[2],
                  !.mode = m[1], !.readsCtx = (m[1] = "ctx"), !.body = m[2]] :
     h \in ({"absent", "sync", "promise"} \X {"none", "ctor", "render"})
             \cup ({"sync", "promise"} \X {"hook"}),
     m \in {<<"ctx", <<>>>>, <<"state", <<>>>>} \cup {<<"body", b>> : b \in Bodies}}

Reader == [NoType EXCEPT !.name = "R", !.mode = "ctx", !.readsCtx = TRUE]

Provider(x) == [NoType EXCEPT !.name = "P", !.childCtx = "q", !.body = <<x>>]

RawElems ==
  {RawElem("w", "div", h, c) :
     h \in {<<>>, <<<<>>>>, <<<<"<", "i", ">">>>>},
     c \in {<<>>, <<A>>, <<True>>, <<Arr(<<A, Z>>)>>}}

Inner ==
  {Comp("x", t) : t \in StatelessTypes \cup StatefulTypes}
    \cup {Elem("e", "span", <<>>, <<Comp("r", Reader)>>)}
    \cup RawElems
    \cup {Num(n) : n \in (0 - MaxNum)..MaxNum}
    \cup {A, Z, Str(<<>>), Null, Undef, False, True, PlainObj, Fn, Arr(<<>>), Arr(<<A>>)}

Shapes(x) ==
  {x,
   Elem("d", "div", <<<<"id", "k">>>>, <<x>>),
   Elem("d", "div", <<>>, <<Arr(<<x, Z>>)>>),
   Elem("d", "div", <<>>, <<Arr(<<x, x>>)>>),
   Elem("d", "div", <<>>, <<Arr(<<x, Comp("p", Provider(x))>>)>>),
   Elem("d", "div", <<>>, <<Arr(<<Comp("p", Provider(x)), x>>)>>)}

\* a component that provides the context c to the tree it returns: a
\* function, a class, or a class whose hook returns a promise
ProviderOf(kind, c, x) ==
  [NoType EXCEPT !.name = "P", !.stateful = (kind # "function"),
                 !.hook = (IF kind = "promise" THEN "promise" ELSE "absent"),
                 !.childCtx = c, !.body = <<x>>]

ReaderAt(id) == Comp(id, Reader)

\* <div><P c="q"><span><R/><P c="w"><R/></P><R/></span></P><R/></div>
CtxTrees ==
  {Elem("c", "div", <<>>,
        <<Arr(<<Comp("p", ProviderOf(k[1], "q",
                     Elem("e", "span", <<>>,
                          <<Arr(<<ReaderAt("r"),
                                  Comp("n", ProviderOf(k[2], "w", ReaderAt("t"))),
                                  ReaderAt("v")>>)>>))),
                ReaderAt("s")>>)>>) :
     k \in {"function", "class", "promise"} \X {"function", "class", "promise"}}

\* a class component with the hook h that renders x
Hooked(h, x) == [NoType EXCEPT !.name = "K", !.stateful = TRUE, !.hook = h, !.body = <<x>>]

\* <div><Ka><Kc>a</Kc></Ka><Kb>z&lt;</Kb></div>
HookTrees ==
  {Elem("h", "div", <<>>,
        <<Arr(<<Comp("a", Hooked(h[1], Comp("c", Hooked(h[2], A)))),
                Comp("b", Hooked(h[3], Z))>>)>>) :
     h \in {"absent", "sync", "promise"} \X {"absent", "sync", "promise"}
             \X {"absent", "sync", "promise"}}

Roots ==
  UNION {Shapes(x) : x \in Inner} \cup {Elem("u", "ul", <<>>, <<Arr(l)>>) : l \in ChildLists}
    \cup CtxTrees \cup HookTrees

Contexts == {"", "p"}

----------------------------------------------------------------------------
(* The render pass *)

NoFrame == [node |-> Undef, ctx |-> "", state |-> ""]

\* a pass that its caller has not started yet, with the new Sequence and the
\* new cache the caller creates for it
NewPass ==
  [pc |-> "init", seq |-> <<>>, out |-> <<>>, cache |-> <<>>, frame |-> NoFrame,
   promise |-> "none", done |-> FALSE, err |-> "", result |-> <<>>, log |-> <<>>]

\* the synchronous code of a pass p is running: no event-loop callback runs
Running(p) == p.pc = "realizing"

\* a pass p entered from a callback is on the call stack, running or in
\* its own loopWhile
OnStack(p) == p.pc \in {"realizing", "waiting"}

\* loopWhile returning whether or not done is set
LoopExits_Anytime(isDone) == TRUE

\* loopWhile(function(){return !done;}) returns once its predicate is false
LoopExits(isDone) == isDone

Init ==
  /\ root \in Roots
  /\ ctx0 \in Contexts
  /\ pc = "init"
  /\ seq = <<>>
  /\ out = <<>>
  /\ cache = <<>>
  /\ frame = NoFrame
  /\ promise = "none"
  /\ done = FALSE
  /\ err = ""
  /\ result = <<>>
  /\ log = <<>>
  /\ second = NewPass

\* the realization of the Sequence has reached the source h, a delegate
\* whose producer it must invoke
AtProducer(fn) ==
  /\ pc = "realizing"
  /\ seq # <<>>
  /\ seq[1].src = "delegate"
  /\ seq[1].fn = fn
  /\ ~(seq[1].cached /\ seq[1].node.id \in DOMAIN cache)

\* the sources a producer registered take the place of its delegate; a cached
\* delegate's nested sequence is closed by the store into the cache.  An
\* error thrown by the producer ends the pass.
Returned(r) ==
  /\ log' = log \o r.log
  /\ IF r.err # ""
     THEN /\ pc' = "error"
          /\ err' = r.err
          /\ seq' = seq
     ELSE /\ pc' = "realizing"
          /\ err' = err
          /\ seq' = r.srcs
                      \o (IF seq[1].cached THEN <<EndCached(seq[1].node, Len(out))>> ELSE <<>>)
                      \o Tail(seq)

\* the caller of the pass: traverse(seq, root, context)
Start ==
  /\ pc = "init"
  /\ LET r == Traverse(root, ctx0)
     IN /\ log' = r.log
        /\ IF r.err # ""
           THEN pc' = "error" /\ err' = r.err /\ seq' = seq
           ELSE pc' = "realizing" /\ err' = err /\ seq' = r.srcs
  /\ UNCHANGED <<second, root, ctx0, out, cache, frame, promise, done, result>>

\* the Sequence invokes a thunk registered by emit
RealizeEmit ==
  /\ pc = "realizing"
  /\ seq # <<>>
  /\ seq[1].src = "emit"
  /\ out' = Append(out, Thunk(seq[1]))
  /\ seq' = Tail(seq)
  /\ UNCHANGED <<second, root, ctx0, pc, cache, frame, promise, done, err, result, log>>

\* delegateCached on a node realized before in this pass: the stored result
RealizeCacheHit ==
  /\ pc = "realizing"
  /\ seq # <<>>
  /\ seq[1].src = "delegate"
  /\ seq[1].cached
  /\ seq[1].node.id \in DOMAIN cache
  /\ out' = out \o cache[seq[1].node.id]
  /\ seq' = Tail(seq)
  /\ log' = Append(log, Ev("hit", seq[1].node, Concat(cache[seq[1].node.id]),
                           Len(cache[seq[1].node.id])))
  /\ UNCHANGED <<second, root, ctx0, pc, cache, frame, promise, done, err, result>>

\* the nested sequence of a cached delegate is realized: store it
RealizeEndCached ==
  /\ pc = "realizing"
  /\ seq # <<>>
  /\ seq[1].src = "endCached"
  /\ LET segs == SubSeq(out, seq[1].start + 1, Len(out))
     IN /\ cache' = (seq[1].node.id :> segs) @@ cache
        /\ log' = Append(log, Ev("realized", seq[1].node, Concat(segs), Len(segs)))
  /\ seq' = Tail(seq)
  /\ UNCHANGED <<second, root, ctx0, pc, out, frame, promise, done, err, result>>

\* which content sources a call of renderNode registered
Branch(srcs) ==
  LET raw == \E i \in 1..Len(srcs) : srcs[i].src = "emit" /\ srcs[i].what = "raw"
      kids == \E i \in 1..Len(srcs) : srcs[i].src = "delegate" /\ srcs[i].fn = "renderChildren"
  IN IF raw /\ kids THEN "both"
     ELSE IF raw THEN "raw"
     ELSE IF kids THEN "children"
     ELSE "none"

\* (_seq, _node) => renderNode(_seq, _node, context)
RealizeRenderNode ==
  /\ AtProducer("renderNode")
  /\ Returned(LET r == RenderNode(seq[1].node, seq[1].ctx)
              IN Outcome(r.err, r.srcs,
                         <<Ev("renderNode", seq[1].node, Branch(r.srcs), Len(r.srcs))>>))
  /\ UNCHANGED <<second, root, ctx0, out, cache, frame, promise, done, result>>

\* () => renderChildren(seq, node.props.children, context)
RealizeRenderChildren ==
  /\ AtProducer("renderChildren")
  /\ Returned(LET r == RenderChildren(seq[1].node.children, seq[1].ctx)
              IN Outcome(r.err, r.srcs,
                         <<Ev("renderChildren", seq[1].node, seq[1].ctx, Len(r.srcs))>> \o r.log))
  /\ UNCHANGED <<second, root, ctx0, out, cache, frame, promise, done, result>>

\* (_seq, _node) => evalComponent(_seq, _node, context), a function component
RealizeEvalStateless ==
  /\ AtProducer("evalComponent")
  /\ ~IsReactComponent(seq[1].node.type)
  /\ Returned(EvalStateless(seq[1].node, seq[1].ctx))
  /\ UNCHANGED <<second, root, ctx0, out, cache, frame, promise, done, result>>

\* (_seq, _node) => evalComponent(_seq, _node, context), a class component:
\* it returns at once when done is set after the hook, and else enters loopWhile
RealizeEvalStateful ==
  /\ AtProducer("evalComponent")
  /\ IsReactComponent(seq[1].node.type)
  /\ LET b == EvalBegin(seq[1].node, seq[1].ctx)
     IN IF b.err # "" \/ b.done
        THEN /\ Returned(IF b.err # "" THEN Outcome(b.err, <<>>, b.log)
                         ELSE LET r == EvalFinish(seq[1].node, seq[1].ctx, b.state, b.done)
                              IN Outcome(r.err, r.srcs, b.log \o r.log))
             /\ promise' = IF b.isPromise THEN "pending" ELSE promise
             /\ UNCHANGED <<frame, done>>
        ELSE /\ pc' = "waiting"
             /\ frame' = [node |-> seq[1].node, ctx |-> seq[1].ctx, state |-> b.state]
             /\ promise' = "pending"
             /\ done' = FALSE
             /\ log' = log \o b.log
             /\ UNCHANGED <<seq, err>>
  /\ UNCHANGED <<second, root, ctx0, out, cache, result>>

\* an event-loop callback run by loopWhile: the hook's asynchronous work sets
\* the state and fulfils the promise
SettleFulfil ==
  /\ pc = "waiting"
  /\ ~Running(second)
  /\ promise = "pending"
  /\ promise' = "fulfilled"
  /\ frame' = [frame EXCEPT !.state = "l"]
  /\ log' = Append(log, Ev("fulfilled", frame.node, "l", 0))
  /\ UNCHANGED <<second, root, ctx0, pc, seq, out, cache, done, err, result>>

\* an event-loop callback run by loopWhile: the hook's asynchronous work fails
\* and the promise is rejected
SettleReject ==
  /\ pc = "waiting"
  /\ ~Running(second)
  /\ promise = "pending"
  /\ promise' = "rejected"
  /\ log' = Append(log, Ev("rejected", frame.node, "", 0))
  /\ UNCHANGED <<second, root, ctx0, pc, seq, out, cache, frame, done, err, result>>

\* the microtask registered by promise.then(() => {done = true;}): it has no
\* rejection handler
ThenCallback ==
  /\ pc = "waiting"
  /\ ~Running(second)
  /\ promise = "fulfilled"
  /\ ~done
  /\ done' = TRUE
  /\ log' = Append(log, Ev("done", frame.node, "", 0))
  /\ UNCHANGED <<second, root, ctx0, pc, seq, out, cache, frame, promise, err, result>>

\* loopWhile(function(){return !done;}) returns
LoopWhileReturns ==
  /\ pc = "waiting"
  /\ LoopExits(done)
  /\ ~OnStack(second)
  /\ Returned(EvalFinish(frame.node, frame.ctx, frame.state, done))
  /\ frame' = NoFrame
  /\ promise' = "none"
  /\ done' = FALSE
  /\ UNCHANGED <<second, root, ctx0, out, cache, result>>

\* every source is realized: the pass returns the concatenation
Finish ==
  /\ pc = "realizing"
  /\ seq = <<>>
  /\ pc' = "done"
  /\ result' = <<Concat(out)>>
  /\ UNCHANGED <<second, root, ctx0, seq, out, cache, frame, promise, done, err, log>>

Next ==
  \/ Start
  \/ RealizeEmit
  \/ RealizeCacheHit
  \/ RealizeEndCached
  \/ RealizeRenderNode
  \/ RealizeRenderChildren
  \/ RealizeEvalStateless
  \/ RealizeEvalStateful
  \/ SettleFulfil
  \/ SettleReject
  \/ ThenCallback
  \/ LoopWhileReturns
  \/ Finish

Spec == Init /\ [][Next]_vars

\* the steps of the pass itself; the settlement of a promise is the environment's
PassStep ==
  \/ Start
  \/ RealizeEmit
  \/ RealizeCacheHit
  \/ RealizeEndCached
  \/ RealizeRenderNode
  \/ RealizeRenderChildren
  \/ RealizeEvalStateless
  \/ RealizeEvalStateful
  \/ ThenCallback
  \/ LoopWhileReturns
  \/ Finish

\* the synchronous code runs on and loopWhile keeps running queued callbacks
FairSpec == Spec /\ WF_vars(PassStep)

----------------------------------------------------------------------------
(* A second pass over the same tree, started from an event-loop callback   *)
(* that the first pass's loopWhile runs.  It runs on the stack above the   *)
(* first pass's loopWhile: the first pass goes on when it has returned.    *)

\* the Sequence and the cache a pass works on: the instances created for it
Own_Shared(mine, others) == others

Own(mine, others) == mine

\* the sources a producer registered, as Returned does for the first pass
ReturnedTo(p, r) ==
  IF r.err # ""
  THEN [p EXCEPT !.log = @ \o r.log, !.pc = "error", !.err = r.err]
  ELSE [p EXCEPT !.log = @ \o r.log,
                 !.pc = "realizing",
                 !.seq = r.srcs
                           \o (IF p.seq[1].cached
                               THEN <<EndCached(p.seq[1].node, Len(p.out))>> ELSE <<>>)
                           \o Tail(p.seq)]

\* traverse(seq, root, context) by the caller of the pass p
Begin(p) ==
  LET r == Traverse(root, ctx0)
  IN IF r.err # ""
     THEN [p EXCEPT !.log = r.log, !.pc = "error", !.err = r.err]
     ELSE [p EXCEPT !.log = r.log, !.pc = "realizing", !.seq = r.srcs]

\* evalComponent of a class component up to loopWhile
EvalStatefulIn(p) ==
  LET h == p.seq[1]
      b == EvalBegin(h.node, h.ctx)
  IN IF b.err # ""
     THEN ReturnedTo(p, Outcome(b.err, <<>>, b.log))
     ELSE IF b.done
     THEN LET r == EvalFinish(h.node, h.ctx, b.state, b.done)
          IN [ReturnedTo(p, Outcome(r.err, r.srcs, b.log \o r.log))
                EXCEPT !.promise = IF b.isPromise THEN "pending" ELSE @]
     ELSE [p EXCEPT !.pc = "waiting",
                    !.frame = [node |-> h.node, ctx |-> h.ctx, state |-> b.state],
                    !.promise = "pending",
                    !.done = FALSE,
                    !.log = @ \o b.log]

\* the Sequence of the pass p realizes its next source, or is exhausted
Realize(p) ==
  LET h == p.seq[1]
  IN IF p.seq = <<>>
     THEN [p EXCEPT !.pc = "done", !.result = <<Concat(p.out)>>]
     ELSE IF h.src = "emit"
     THEN [p EXCEPT !.out = Append(@, Thunk(h)), !.seq = Tail(@)]
     ELSE IF h.src = "endCached"
     THEN LET segs == SubSeq(p.out, h.start + 1, Len(p.out))
          IN [p EXCEPT !.cache = (h.node.id :> segs) @@ @,
                       !.log = Append(@, Ev("realized", h.node, Concat(segs), Len(segs))),
                       !.seq = Tail(@)]
     ELSE IF h.cached /\ h.node.id \in DOMAIN p.cache
     THEN [p EXCEPT !.out = @ \o p.cache[h.node.id],
                    !.seq = Tail(@),
                    !.log = Append(@, Ev("hit", h.node, Concat(p.cache[h.node.id]),
                                         Len(p.cache[h.node.id])))]
     ELSE IF h.fn = "renderNode"
     THEN LET r == RenderNode(h.node, h.ctx)
          IN ReturnedTo(p, Outcome(r.err, r.srcs,
                                   <<Ev("renderNode", h.node, Branch(r.srcs), Len(r.srcs))>>))
     ELSE IF h.fn = "renderChildren"
     THEN LET r == RenderChildren(h.node.children, h.ctx)
          IN ReturnedTo(p, Outcome(r.err, r.srcs,
                                   <<Ev("renderChildren", h.node, h.ctx, Len(r.srcs))>> \o r.log))
     ELSE IF ~IsReactComponent(h.node.type)
     THEN ReturnedTo(p, EvalStateless(h.node, h.ctx))
     ELSE EvalStatefulIn(p)

\* the callbacks that settle the promise of the pass p, and its then-callback
Fulfilled(p) ==
  [p EXCEPT !.promise = "fulfilled",
            !.frame = [@ EXCEPT !.state = "l"],
            !.log = Append(@, Ev("fulfilled", p.frame.node, "l", 0))]

Rejected(p) ==
  [p EXCEPT !.promise = "rejected", !.log = Append(@, Ev("rejected", p.frame.node, "", 0))]

DoneSet(p) ==
  [p EXCEPT !.done = TRUE, !.log = Append(@, Ev("done", p.frame.node, "", 0))]

\* evalComponent of the pass p after its loopWhile has returned
Resumed(p) ==
  [ReturnedTo(p, EvalFinish(p.frame.node, p.frame.ctx, p.frame.state, p.done))
     EXCEPT !.frame = NoFrame, !.promise = "none", !.done = FALSE]

\* what the second pass sees of its Sequence and cache
View == [second EXCEPT !.seq = Own(@, seq), !.out = Own(@, out), !.cache = Own(@, cache)]

\* the second pass has moved to p: what it did to its Sequence and cache
Moved(p) ==
  /\ second' = p
  /\ seq' = Own(seq, p.seq)
  /\ out' = Own(out, p.out)
  /\ cache' = Own(cache, p.cache)
  /\ UNCHANGED <<root, ctx0, pc, frame, promise, done, err, result, log>>

\* a callback run by the first pass's loopWhile starts the second pass
SecondStart ==
  /\ pc = "waiting"
  /\ second.pc = "init"
  /\ Moved(Begin(View))

SecondRealize ==
  /\ Running(second)
  /\ Moved(Realize(View))

SecondSettleFulfil ==
  /\ second.pc = "waiting"
  /\ second.promise = "pending"
  /\ Moved(Fulfilled(View))

SecondSettleReject ==
  /\ second.pc = "waiting"
  /\ second.promise = "pending"
  /\ Moved(Rejected(View))

SecondThenCallback ==
  /\ second.pc = "waiting"
  /\ second.promise = "fulfilled"
  /\ ~second.done
  /\ Moved(DoneSet(View))

SecondLoopWhileReturns ==
  /\ second.pc = "waiting"
  /\ LoopExits(second.done)
  /\ Moved(Resumed(View))

TwoNext ==
  \/ Start
  \/ RealizeEmit
  \/ RealizeCacheHit
  \/ RealizeEndCached
  \/ RealizeRenderNode
  \/ RealizeRenderChildren
  \/ RealizeEvalStateless
  \/ RealizeEvalStateful
  \/ SettleFulfil
  \/ SettleReject
  \/ ThenCallback
  \/ LoopWhileReturns
  \/ Finish
  \/ SecondStart
  \/ SecondRealize
  \/ SecondSettleFulfil
  \/ SecondSettleReject
  \/ SecondThenCallback
  \/ SecondLoopWhileReturns

TwoSpec == Init /\ [][TwoNext]_vars

----------------------------------------------------------------------------
(* Properties *)

Events == 1..Len(log)

\* C1: once the promise returned by componentWillMount is rejected, the pass
\* ends in an error: it does not stay in the wait loop.
C1_RejectionPropagates == (promise = "rejected") ~> (pc = "error")

\* C2: every numeric leaf, 0 included, appends exactly one segment, and a pass
\* over a numeric root returns the number's decimal string.
C2_NumericLeafEmitted ==
  /\ \A i \in Events : log[i].ev = "traverse" /\ log[i].node.k = "number" => log[i].nsrc = 1
  /\ pc = "done" /\ root.k = "number" => result = <<NumberToString(root.n)>>

\* C3: within one pass no component node reference has its function or
\* constructor invoked twice, nor its pre-render hook: an encounter of a node
\* already realized is a cache hit.
C3_EvaluatedOncePerNode ==
  /\ \A i, j \in Events :
       /\ i < j
       /\ log[i].id = log[j].id
       /\ log[i].ev \in {"call", "new", "componentWillMount"}
       => log[j].ev # log[i].ev
  /\ \A j \in Events :
       log[j].ev = "hit" => \E i \in 1..(j - 1) : log[i].ev = "realized" /\ log[i].id = log[j].id

C3_Witness ==
  /\ pc = "done"
  /\ \E j \in Events :
       /\ log[j].ev = "hit"
       /\ log[j].node.k = "component"
       /\ log[j].node.type.hook = "promise"

\* C4: render() of a component whose hook returned a promise is invoked only
\* after that promise was fulfilled and the then-callback ran, and it sees the
\* state as the hook's work left it; while the promise is pending the pass
\* waits without a render().
C4_RenderAfterSettlement ==
  /\ \A i \in Events :
       log[i].ev = "render" /\ log[i].node.type.hook = "promise"
       => /\ \E j, k \in 1..(i - 1) :
               /\ j < k
               /\ log[j].ev = "fulfilled" /\ log[j].id = log[i].id
               /\ log[k].ev = "done" /\ log[k].id = log[i].id
          /\ log[i].info = "l"
  /\ promise \in {"pending", "rejected"}
       => /\ pc = "waiting"
          /\ ~\E i \in Events : log[i].ev = "render" /\ log[i].id = frame.node.id
  /\ pc = "done" /\ root.k = "component" /\ root.type.hook = "promise"
       /\ root.type.mode = "state"
       => result = <<"l">>
  /\ pc = "done" /\ root.k = "component" /\ root.type.hook = "sync"
       /\ root.type.mode = "state"
       => result = <<"s">>

C4_Witness ==
  /\ pc = "done"
  /\ root.k = "component"
  /\ root.type.hook = "promise"
  /\ root.type.mode = "state"
  /\ result = <<"l">>

\* C5 as claimed: a list handed to traverse itself raises no error.
C5_ListNodeRaisesNoError ==
  ~\E i \in Events : log[i].ev = "throw" /\ log[i].node.k = "array"

\* C5 as amended: a list reaches traverse only as the root of the pass or as
\* the result of a component, never as a child of an element, and traverse
\* then throws the TypeError without dispatching any of its elements: the
\* pass ends in that error with no output.
C5_ListNodeThrows ==
  \A i \in Events :
    log[i].ev = "traverse" /\ log[i].node.k = "array"
    => /\ i = 1 \/ log[i - 1].ev \in {"getChildContext", "render"}
       /\ log[i].nsrc = 0
       /\ Len(log) = i + 1
       /\ log[i + 1].ev = "throw" /\ log[i + 1].info = "TypeError" /\ log[i + 1].node = log[i].node
       /\ pc = "error" /\ err = "TypeError" /\ result = <<>>

C5_Witness ==
  /\ pc = "error"
  /\ \E i \in Events :
       /\ i > 1
       /\ log[i].ev = "traverse"
       /\ log[i].node = Arr(<<A>>)
       /\ log[i - 1].ev = "render"

\* the children of a list in pre-order, left to right
RECURSIVE Flatten(_)
Flatten(items) ==
  IF items = <<>> THEN <<>>
  ELSE (IF Head(items).k = "array" THEN Flatten(Head(items).items) ELSE <<Head(items)>>)
         \o Flatten(Tail(items))

\* the nodes of the traverse events that follow one another from event i on
RECURSIVE TraverseRun(_)
TraverseRun(i) ==
  IF i > Len(log) \/ log[i].ev # "traverse" THEN <<>>
  ELSE <<log[i].node>> \o TraverseRun(i + 1)

\* the text a leaf contributes: nothing when it is absent
LeafText(v) ==
  CASE Falsy(v) -> ""
    [] v.k = "string" -> HtmlStringEscape(v.s)
    [] v.k = "number" -> NumberToString(v.n)
    [] OTHER -> ""

\* C6: the children of a list, nested to any depth, are dispatched to traverse
\* in pre-order, each once (up to a child that makes traverse throw), and the
\* output of a list of leaves is the leaves' text in that order.
C6_ChildrenInPreOrder ==
  /\ \A i \in Events :
       log[i].ev = "renderChildren" /\ log[i].node.children # <<>>
         /\ log[i].node.children[1].k = "array"
       => LET want == Flatten(log[i].node.children[1].items)
              got == TraverseRun(i + 1)
              threw == i + Len(got) < Len(log) /\ log[i + Len(got) + 1].ev = "throw"
          IN /\ Len(got) <= Len(want)
             /\ got = SubSeq(want, 1, Len(got))
             /\ ~threw => got = want
  /\ pc = "done" /\ root.id = "u"
       => LET want == Flatten(root.children[1].items)
          IN result = <<"<ul" \o REACT_ID \o ">"
                          \o Concat([i \in 1..Len(want) |-> LeafText(want[i])]) \o "</ul>">>

C6_Witness ==
  /\ pc = "done"
  /\ root.id = "u"
  /\ root.children[1].items = <<Arr(<<A, Num(3)>>), A>>
  /\ result = <<"<ul data-reactid>a3a</ul>">>

\* a node of none of the shapes traverse knows
Unknown(v) == ~Falsy(v) /\ v.k \notin {"string", "number", "element", "component"}

\* C7: traverse called with a node of an unknown shape throws the TypeError,
\* whether the node is the root, a child of an element or the result of a
\* component: the pass ends in that error and returns no output.
C7_UnknownNodeFails ==
  /\ \A i \in Events :
       log[i].ev = "traverse" /\ Unknown(log[i].node)
       => /\ i < Len(log)
          /\ log[i + 1].ev = "throw" /\ log[i + 1].info = "TypeError"
          /\ pc = "error" /\ err = "TypeError" /\ result = <<>>
  /\ Unknown(root) /\ pc # "init" => pc = "error" /\ err = "TypeError"
  /\ pc = "error" => result = <<>>

C7_Witness ==
  /\ pc = "error"
  /\ err = "TypeError"
  /\ root.k = "element"
  /\ \E i \in Events :
       /\ i > 1
       /\ log[i].ev = "traverse"
       /\ log[i].node = True
       /\ log[i - 1].ev = "getChildContext"

\* C8: renderNode registers the raw content and no renderChildren when the
\* element asks for raw inner HTML, and renderChildren and no raw content
\* otherwise; the children of an element with raw inner HTML are never
\* rendered and its output holds the raw content unescaped.
C8_RawOrChildren ==
  /\ \A i \in Events :
       log[i].ev = "renderNode"
       => log[i].info = IF log[i].node.rawSet THEN "raw" ELSE "children"
  /\ \A i \in Events : log[i].ev = "renderChildren" => ~log[i].node.rawSet
  /\ \A i \in Events :
       log[i].ev = "realized" /\ log[i].node.k = "element" /\ log[i].node.rawSet
       => log[i].info = "<" \o log[i].node.tag \o RenderAttrs(log[i].node.attrs) \o REACT_ID \o ">"
                          \o (IF log[i].node.html = <<>> THEN "" ELSE Concat(log[i].node.html[1]))
                          \o "</" \o log[i].node.tag \o ">"

C8_Witness ==
  /\ pc = "done"
  /\ \E i \in Events :
       /\ log[i].ev = "realized"
       /\ log[i].node.rawSet
       /\ log[i].node.children = <<Arr(<<A, Z>>)>>
       /\ log[i].info = "<div data-reactid><i></div>"

\* a root <div> with the node x at two positions, the later one either beside
\* the first or below a provider of another context
TwoPositions(x) ==
  {Elem("d", "div", <<>>, <<Arr(<<x, x>>)>>),
   Elem("d", "div", <<>>, <<Arr(<<x, Comp("p", Provider(x))>>)>>),
   Elem("d", "div", <<>>, <<Arr(<<Comp("p", Provider(x)), x>>)>>)}

\* C9: every later encounter of an Element or component node reference is
\* served the output of the first, and when the pass is over the output holds
\* that output at both positions, whatever their contexts, between the
\* segments of the enclosing element.
C9_SameOutputAtEveryPosition ==
  /\ \A i, j \in Events :
       /\ log[i].id = log[j].id
       /\ log[i].ev \in {"realized", "hit"}
       /\ log[j].ev \in {"realized", "hit"}
       => log[i].info = log[j].info
  /\ IF /\ pc = "done"
        /\ root.id = "d"
        /\ root.children # <<>>
        /\ root.children[1].k = "array"
        /\ Len(root.children[1].items) = 2
     THEN \A x \in {n \in {root.children[1].items[1], root.children[1].items[2]} :
                      n.k \in {"element", "component"} /\ root \in TwoPositions(n)} :
            /\ x.id \in DOMAIN cache
            /\ result = <<"<div" \o REACT_ID \o ">" \o Concat(cache[x.id])
                            \o Concat(cache[x.id]) \o "</div>">>
     ELSE TRUE

C9_Witness ==
  /\ pc = "done"
  /\ ctx0 = "p"
  /\ root = Elem("d", "div", <<>>, <<Arr(<<Comp("x", [NoType EXCEPT !.name = "F", !.mode = "ctx", !.readsCtx = TRUE]),
                                           Comp("p", Provider(Comp("x", [NoType EXCEPT !.name = "F", !.mode = "ctx", !.readsCtx = TRUE])))>>)>>)
  /\ result = <<"<div data-reactid>pp</div>">>

\* C10: an error thrown by a component's function, constructor, hook or
\* render() is the last thing the pass does: the pass ends with that error,
\* nothing is invoked or dispatched after it, and no output is returned.
C10_ThrowEndsThePass ==
  \A i \in Events :
    log[i].ev = "throw"
    => /\ i = Len(log)
       /\ pc = "error"
       /\ err = log[i].info
       /\ result = <<>>
       /\ Cardinality({j \in Events : log[j].id = log[i].id
                                        /\ log[j].ev \in {"call", "new"}}) <= 1

C10_Witness ==
  /\ pc = "error"
  /\ err = "Error:call"
  /\ root.id = "d"
  /\ seq # <<>>
  /\ \E i \in 1..Len(seq) : seq[i].src = "emit" /\ seq[i].what = "text" /\ seq[i].node = Z

\* C11: every text leaf, the empty string included, appends exactly one
\* segment, and a pass over a text root returns the escaped text.
C11_TextLeafEmitted ==
  /\ \A i \in Events : log[i].ev = "traverse" /\ log[i].node.k = "string" => log[i].nsrc = 1
  /\ \A i \in 1..Len(seq) :
       seq[i].src = "emit" /\ seq[i].what = "text" => Thunk(seq[i]) = HtmlStringEscape(seq[i].node.s)
  /\ pc = "done" /\ root.k = "string" => out = <<HtmlStringEscape(root.s)>>

\* the last event before event i that is no call of traverse (0 if none)
RECURSIVE CallerOf(_)
CallerOf(i) == IF i <= 1 THEN 0 ELSE IF log[i - 1].ev # "traverse" THEN i - 1 ELSE CallerOf(i - 1)

\* the context event j hands to the calls of traverse that follow it
HandedDown(j) == IF log[j].ev = "render" THEN log[j - 1].info ELSE log[j].info

\* C12: the root is traversed under the initial context; the children of an
\* Element under the context the Element was traversed under; the result of a
\* component under the outbound context computed from the context the
\* component was traversed under.  No other call of traverse occurs, so an
\* outbound context reaches the component's result tree alone.
C12_ContextFollowsTheTree ==
  /\ \A i \in Events :
       log[i].ev = "traverse"
       => LET j == CallerOf(i)
          IN IF j = 0 THEN i = 1 /\ log[i].info = ctx0
             ELSE /\ log[j].ev \in {"renderChildren", "getChildContext", "render"}
                  /\ log[j].ev = "render" => log[j - 1].ev = "getChildContext"
                                               /\ log[j - 1].id = log[j].id
                  /\ log[i].info = HandedDown(j)
                  /\ log[j].ev # "renderChildren" => i = j + 1
  /\ \A j \in Events :
       log[j].ev \in {"renderChildren", "getChildContext"}
       => \E i \in 1..(j - 1) :
            /\ log[i].ev = "traverse"
            /\ log[i].id = log[j].id
            /\ log[j].info = IF log[j].ev = "renderChildren" THEN log[i].info
                             ELSE GetChildContext(log[j].node.type, log[i].info)
  /\ pc = "done" /\ root \in CtxTrees
       => result = <<"<div" \o REACT_ID \o "><span" \o REACT_ID \o ">qwq</span>" \o ctx0 \o "</div>">>

C12_Witness ==
  /\ pc = "done"
  /\ ctx0 = "p"
  /\ root \in CtxTrees
  /\ root.children[1].items[1].type.stateful = FALSE
  /\ result = <<"<div data-reactid><span data-reactid>qwq</span>p</div>">>

\* the children of an element as renderChildren walks them
ChildrenOf(e) ==
  IF e.children = <<>> \/ Falsy(e.children[1]) THEN <<>>
  ELSE IF e.children[1].k = "array" THEN Flatten(e.children[1].items)
  ELSE <<e.children[1]>>

\* the output of the child c of an element whose realization ended at event i
ChildOutput(c, i) ==
  IF c.k \in {"element", "component"}
  THEN log[CHOOSE k \in 1..(i - 1) : log[k].ev \in {"realized", "hit"} /\ log[k].id = c.id].info
  ELSE LeafText(c)

\* C14: the output of every Element is its opening tag with the attributes
\* and the identity marker, then its raw inner HTML or the output of all its
\* children in order, then its closing tag; the closing tag is registered
\* right behind the delegate of the children, before any child is dispatched.
C14_ElementOutputIsContiguous ==
  /\ \A i \in Events :
       log[i].ev = "realized" /\ log[i].node.k = "element"
       => LET e == log[i].node
              kids == ChildrenOf(e)
          IN /\ \A n \in 1..Len(kids) :
                  kids[n].k \in {"element", "component"} /\ ~e.rawSet
                  => \E k \in 1..(i - 1) : log[k].ev \in {"realized", "hit"} /\ log[k].id = kids[n].id
             /\ log[i].info =
                  "<" \o e.tag \o RenderAttrs(e.attrs) \o REACT_ID \o ">"
                    \o (IF e.rawSet THEN (IF e.html = <<>> THEN "" ELSE Concat(e.html[1]))
                        ELSE Concat([n \in 1..Len(kids) |-> ChildOutput(kids[n], i)]))
                    \o "</" \o e.tag \o ">"
  /\ \A k \in 1..Len(seq) :
       seq[k].src = "delegate" /\ seq[k].fn = "renderChildren"
       => k < Len(seq) /\ seq[k + 1] = Emit("close", seq[k].node)

C14_Witness ==
  /\ pc = "done"
  /\ ctx0 = "p"
  /\ root.id = "d"
  /\ result = <<"<div id=\"k\" data-reactid><span data-reactid>p</span></div>">>

\* the events of kind ev about the node id
EventsOf(ev, id) == {i \in Events : log[i].ev = ev /\ log[i].id = id}

\* the state the hook of a class component leaves in the instance
StateAfterHook(type) ==
  CASE type.hook = "sync" -> "s"
    [] type.hook = "promise" -> "l"
    [] OTHER -> "i"

\* C16: a class component is constructed once; setState is installed only
\* when the instance has a hook, right after the construction and right
\* before the one call of the hook; the outbound context is computed and
\* right after it render() is called, once, after the hook's promise settled,
\* on the instance the hook ran on.
C16_LifecycleOrder ==
  /\ \A i \in Events :
       log[i].ev = "new"
       => /\ \A ev \in {"new", "setState=", "componentWillMount", "render"} :
               Cardinality(EventsOf(ev, log[i].id)) <= 1
          /\ log[i].node.type.hook = "absent" => EventsOf("setState=", log[i].id) = {}
          /\ log[i].node.type.hook # "absent" /\ log[i].node.type.throwsAt # "ctor"
               => /\ log[i + 1].ev = "setState=" /\ log[i + 1].id = log[i].id
                  /\ log[i + 2].ev = "componentWillMount" /\ log[i + 2].id = log[i].id
  /\ \A i \in Events :
       log[i].ev \in {"setState=", "componentWillMount"}
       => \E j \in 1..(i - 1) : log[j].ev = "new" /\ log[j].id = log[i].id
  /\ \A i \in Events :
       log[i].ev = "render"
       => /\ log[i - 1].ev = "getChildContext" /\ log[i - 1].id = log[i].id
          /\ \E j \in 1..(i - 1) : log[j].ev = "new" /\ log[j].id = log[i].id
          /\ log[i].node.type.hook # "absent"
               => \E j \in 1..(i - 1) : log[j].ev = "componentWillMount" /\ log[j].id = log[i].id
          /\ log[i].node.type.hook = "promise"
               => \E j \in 1..(i - 2) : log[j].ev = "done" /\ log[j].id = log[i].id
          /\ log[i].info = StateAfterHook(log[i].node.type)

C16_Witness ==
  /\ pc = "done"
  /\ \E i \in Events :
       /\ i + 7 <= Len(log)
       /\ [k \in 1..8 |-> log[i + k - 1].ev]
            = <<"new", "setState=", "componentWillMount", "then", "fulfilled", "done",
                "getChildContext", "render">>
       /\ \A k \in 1..8 : log[i + k - 1].id = log[i].id

\* the hooks whose promise is outstanding: returned and not yet settled
Outstanding ==
  {i \in Events :
     /\ log[i].ev = "componentWillMount"
     /\ log[i].info = "promise"
     /\ ~\E k \in (i + 1)..Len(log) :
          log[k].ev \in {"fulfilled", "rejected"} /\ log[k].id = log[i].id}

\* the ids of the class components constructed so far, in the order of their construction
RECURSIVE Constructed(_)
Constructed(i) ==
  IF i > Len(log) THEN <<>>
  ELSE (IF log[i].ev = "new" THEN <<log[i].id>> ELSE <<>>) \o Constructed(i + 1)

\* C17: at most one hook's promise is outstanding; no component's function,
\* constructor or hook is invoked after the constructor of another component
\* before that component's render() was called, and after its promise was
\* fulfilled if its hook returned one; the components are constructed in the
\* depth-first, left-to-right order of the tree.
C17_HooksOneAfterAnother ==
  /\ Cardinality(Outstanding) <= 1
  /\ \A i, j \in Events :
       /\ i < j
       /\ log[i].ev = "new"
       /\ log[j].ev \in {"new", "call", "componentWillMount"}
       /\ log[j].id # log[i].id
       => /\ \E m \in (i + 1)..(j - 1) : log[m].ev = "render" /\ log[m].id = log[i].id
          /\ log[i].node.type.hook = "promise"
               => \E k \in (i + 1)..(j - 1) : log[k].ev = "fulfilled" /\ log[k].id = log[i].id
  /\ root \in HookTrees
       => LET got == Constructed(1)
          IN got = SubSeq(<<"a", "c", "b">>, 1, Len(got))

C17_Witness ==
  /\ pc = "done"
  /\ root \in HookTrees
  /\ Cardinality(EventsOf("fulfilled", "a")) = 1
  /\ Cardinality(EventsOf("fulfilled", "c")) = 1
  /\ Cardinality(EventsOf("fulfilled", "b")) = 1
  /\ Constructed(1) = <<"a", "c", "b">>

\* C15: a pass over a tree whose hooks' promises are each eventually fulfilled
\* and none rejected ends, with its output or with the error a component threw,
\* as long as the synchronous code and the queued callbacks keep running; it
\* waits in loopWhile only for a component whose hook returned a promise.
C15_PassCompletes ==
  /\ [](pc = "waiting" => frame.node.type.hook = "promise")
  /\ ([](promise = "pending" => <>(promise = "fulfilled")) /\ [](promise # "rejected"))
       => <>(pc \in {"done", "error"})

C15_Witness ==
  /\ pc = "done"
  /\ root \in HookTrees
  /\ \A id \in {"a", "c", "b"} : Cardinality(EventsOf("done", id)) = 1
  /\ Len(result) = 1

\* C13: two passes over the same tree and context, the second started in a
\* wait of the first and each with its own timing of the settlements and of
\* the callbacks run in its waits, return the same output.
C13_SameOutputInEveryExecution ==
  pc = "done" /\ second.pc = "done" => result = second.result

C13_Witness ==
  /\ pc = "done"
  /\ second.pc = "done"
  /\ root \in HookTrees
  /\ result = second.result
  /\ \A id \in {"a", "c", "b"} :
       /\ Cardinality(EventsOf("fulfilled", id)) = 1
       /\ \E j \in 1..Len(second.log) :
            second.log[j].ev = "fulfilled" /\ second.log[j].id = id

\* the pass run alone from p to its end, every promise fulfilled at once
RECURSIVE Alone(_)
Alone(p) ==
  IF p.pc \in {"done", "error"} THEN p
  ELSE IF p.pc = "init" THEN Alone(Begin(p))
  ELSE IF p.pc = "realizing" THEN Alone(Realize(p))
  ELSE Alone(Resumed(DoneSet(Fulfilled(p))))

\* C18: a second pass with its own Sequence and cache, started from a callback
\* while the first pass waits in loopWhile, registers and emits nothing on the
\* first pass's Sequence and leaves the first pass's cache as it is; nothing
\* of the first pass changes during its wait but its promise and done; and the
\* output of the first pass is the output of the pass run alone.
C18_PassesDoNotInterfere ==
  /\ [][second' # second => seq' = seq /\ out' = out /\ cache' = cache]_vars
  /\ [][pc = "waiting" /\ pc' = "waiting" => seq' = seq /\ out' = out /\ cache' = cache]_vars
  /\ [](pc = "done" => result = Alone(NewPass).result)

C18_Witness ==
  /\ pc = "done"
  /\ second.pc = "done"
  /\ second.out # <<>>
  /\ result = Alone(NewPass).result
  /\ DOMAIN cache = DOMAIN second.cache
  /\ \E id \in DOMAIN cache : Len(cache[id]) > 0

====
